---- MODULE Spec2Model ----
(***************************************************************************)
(* EPR packaging report generator (src/app.py).                            *)
(*                                                                         *)
(* One run of the script on an uploaded CSV file: the encoding-resolving   *)
(* reader, the schema check, the country choice, filter and normalise,     *)
(* the fixed-structure aggregation, the derived total weight, the grand    *)
(* total, formatting, on-screen display and spreadsheet export.            *)
(*                                                                         *)
(* A table is [columns |-> set of column names, rows |-> sequence of       *)
(* rows], a row being a function from the table's columns to cells.  A     *)
(* cell of an input table is <<v>> for a value v or <<>> for a missing     *)
(* value (pandas NaN).  Text that is not ASCII in the source (Chinese      *)
(* labels) is written here by its ASCII part.                              *)
(***************************************************************************)
EXTENDS Integers, Sequences, FiniteSets, TLC

VARIABLES
    file,                \* the uploaded file: what read_csv does per encoding, and the table it holds
    pc,                  \* the statement the run is at
    enc_idx,             \* load_csv_safe: index of the candidate encoding of the next attempt
    pos,                 \* load_csv_safe: position of the file stream
    attempts,            \* load_csv_safe: the read attempts made so far
    df,                  \* <<>> (None) or <<table>>
    loaded_encoding,     \* "None" or the label of the encoding that parsed
    available_countries, \* sorted distinct country codes of the file
    default_index,       \* index preselected in the country selectbox (0-based)
    offered,             \* the country selectbox has been shown
    selected_country,    \* <<>> or <<code>>
    df_target,           \* <<>> or <<table>>: filtered, then normalised rows
    df_final,            \* the report rows: sequence of [index, data]
    df_display,          \* the presentation table
    error,               \* <<>> or <<message>>: what st.error has shown
    displayed,           \* <<>> or <<table>>: what st.dataframe has shown
    exported             \* the download button with the workbook has been offered

vars == <<file, pc, enc_idx, pos, attempts, df, loaded_encoding, available_countries,
          default_index, offered, selected_country, df_target, df_final, df_display,
          error, displayed, exported>>

(***************************************************************************)
(* Bounds of the model.                                                    *)
(***************************************************************************)
\* longest input table explored, in rows
MaxRows == 2
\* bits of significand of the floating-point numbers (64-bit floats scaled down)
MantissaBits == 3
\* length of the file stream, in positions
FileLen == 2

(***************************************************************************)
(* Program constants.                                                      *)
(***************************************************************************)
COUNTRY_MAP ==
    [c \in {"DE", "FR", "ES", "IT", "GB", "UK", "PL", "SE", "NL", "BE", "AT", "US",
            "CA", "JP", "AU", "AE", "SA", "SG", "IE", "PT", "TR", "MX", "BR", "IN"}
        |-> "(" \o c \o ")"]

encodings == <<"utf-8", "gbk", "gb18030", "cp1252", "latin1">>

material_cols ==
    <<"PAPER_KG", "PLASTIC_KG", "GLASS_KG", "ALUMINUM_KG", "STEEL_KG", "WOOD_KG", "OTHER_KG">>

target_categories == <<"Primary Packaging", "Secondary Packaging">>

cols_to_sum == <<"TOTAL_UNITS_SOLD">> \o material_cols

row_mapping ==
    [l \in {"Primary Packaging", "Secondary Packaging"} |->
        IF l = "Primary Packaging" THEN "Primary Packaging (display)"
                                   ELSE "Secondary Packaging (display)"]

col_mapping ==
    [c \in {"index", "TOTAL_UNITS_SOLD", "PAPER_KG", "PLASTIC_KG", "GLASS_KG",
            "ALUMINUM_KG", "STEEL_KG", "WOOD_KG", "OTHER_KG", "Total_Weight_KG"} |->
        CASE c = "index" -> "(EPR Category)"
          [] c = "TOTAL_UNITS_SOLD" -> "(Units)"
          [] c = "PAPER_KG" -> "(Paper) kg"
          [] c = "PLASTIC_KG" -> "(Plastic) kg"
          [] c = "GLASS_KG" -> "(Glass) kg"
          [] c = "ALUMINUM_KG" -> "(Aluminum) kg"
          [] c = "STEEL_KG" -> "(Steel) kg"
          [] c = "WOOD_KG" -> "(Wood) kg"
          [] c = "OTHER_KG" -> "(Other) kg"
          [] OTHER -> "(Total Weight) kg"]

GrandTotalLabel == "(Grand Total)"
CountryColumn == "(Country)"

Range(s) == {s[i] : i \in DOMAIN s}

NaN == <<>>

AllCols == {"SHIP_TO_COUNTRY_CODE", "EPR_CATEGORY"} \cup Range(cols_to_sum)

(***************************************************************************)
(* Floating-point addition.  The material weights and the total weight are *)
(* 64-bit floats; every addition rounds its exact result to the nearest    *)
(* number with MantissaBits significant bits, ties to even.  The unit of   *)
(* the model's numbers is the smallest weight the inputs distinguish.      *)
(* Sums are taken in row (or column) order, one rounded addition per term. *)
(***************************************************************************)
RECURSIVE Pow2(_)
Pow2(n) == IF n = 0 THEN 1 ELSE 2 * Pow2(n - 1)

RECURSIVE Quantum(_, _)
Quantum(x, q) == IF x < Pow2(MantissaBits) * q THEN q ELSE Quantum(x, 2 * q)

RoundNearestEven(x) ==
    LET q == Quantum(x, 1)
        lo == (x \div q) * q
        r == x - lo
    IN  IF 2 * r < q THEN lo
        ELSE IF 2 * r > q THEN lo + q
        ELSE IF (lo \div q) % 2 = 0 THEN lo ELSE lo + q

FAdd(a, b) == RoundNearestEven(a + b)

\* the unit count is summed exactly (integer counts far below 2^53), weights as floats
Add(col, a, b) == IF col = "TOTAL_UNITS_SOLD" THEN a + b ELSE FAdd(a, b)

(***************************************************************************)
(* The pipeline's steps as functions of tables.                            *)
(***************************************************************************)
HasColumn(t, col) == col \in t.columns

\* COUNTRY_MAP.get(x, x)
CountryName(x) == IF x \in DOMAIN COUNTRY_MAP THEN COUNTRY_MAP[x] ELSE x

\* the country codes the model's inputs use, in sorted order
CodeOrder == <<"DE", "ZZ">>

\* df['SHIP_TO_COUNTRY_CODE'].dropna().unique().tolist(), then sort()
AvailableCountries(t) ==
    LET present == {r["SHIP_TO_COUNTRY_CODE"][1] :
                        r \in {x \in Range(t.rows) : x["SHIP_TO_COUNTRY_CODE"] # NaN}}
    IN  SelectSeq(CodeOrder, LAMBDA c : c \in present)

\* available_countries.index('DE') if 'DE' in available_countries else 0
DefaultIndex(avail) ==
    IF "DE" \in Range(avail)
    THEN (CHOOSE i \in DOMAIN avail : avail[i] = "DE") - 1
    ELSE 0

\* mutant of Filter: the country filter left out
FilterNone(t, sel) == t

\* df[df['SHIP_TO_COUNTRY_CODE'] == selected_country].copy()
Filter(t, sel) ==
    [columns |-> t.columns,
     rows |-> SelectSeq(t.rows, LAMBDA r : r["SHIP_TO_COUNTRY_CODE"] = <<sel>>)]

\* mutant of FillCol: an absent column is created, missing cells are not filled
FillColAbsentOnly(t, col) ==
    [columns |-> t.columns \cup {col},
     rows |-> [i \in DOMAIN t.rows |->
                [c \in t.columns \cup {col} |->
                    IF c = col /\ col \notin t.columns THEN <<0>> ELSE t.rows[i][c]]]]

\* one pass of the fill loop: create the column with 0.0 if absent, then fillna(0.0)
FillCol(t, col) ==
    [columns |-> t.columns \cup {col},
     rows |-> [i \in DOMAIN t.rows |->
                [c \in t.columns \cup {col} |->
                    IF c = col
                    THEN IF col \notin t.columns \/ t.rows[i][col] = NaN
                         THEN <<0>>
                         ELSE t.rows[i][col]
                    ELSE t.rows[i][c]]]]

RECURSIVE FillFrom(_, _)
FillFrom(t, k) ==
    IF k > Len(material_cols) THEN t ELSE FillFrom(FillCol(t, material_cols[k]), k + 1)

\* for col in material_cols: ...
Normalize(t) == FillFrom(t, 1)

\* the sum of one column over rows, in row order, skipping missing cells
RECURSIVE SumFrom(_, _, _, _)
SumFrom(rows, col, i, acc) ==
    IF i > Len(rows) THEN acc
    ELSE SumFrom(rows, col, i + 1,
                 IF rows[i][col] = NaN THEN acc ELSE Add(col, acc, rows[i][col][1]))

ColSum(rows, col) == SumFrom(rows, col, 1, 0)

\* groupby('EPR_CATEGORY') and [cols_to_sum] raise KeyError for an absent column
GroupByRaises(t) ==
    \/ ~HasColumn(t, "EPR_CATEGORY")
    \/ \E c \in Range(cols_to_sum) : ~HasColumn(t, c)

\* the group keys: the labels present, rows with a missing label dropped
GroupKeys(t) ==
    {r["EPR_CATEGORY"][1] : r \in {x \in Range(t.rows) : x["EPR_CATEGORY"] # NaN}}

\* mutant of GroupSum: every group sums all the rows of the table
GroupSumAll(t) ==
    [k \in GroupKeys(t) |-> [c \in Range(cols_to_sum) |-> ColSum(t.rows, c)]]

\* df_target.groupby('EPR_CATEGORY')[cols_to_sum].sum()
GroupSum(t) ==
    [k \in GroupKeys(t) |->
        [c \in Range(cols_to_sum) |->
            ColSum(SelectSeq(t.rows, LAMBDA r : r["EPR_CATEGORY"] = <<k>>), c)]]

\* mutant of Reindex: a fixed category absent from the groups gets no row
ReindexPresent(grouped) ==
    SelectSeq([i \in DOMAIN target_categories |->
                  [index |-> target_categories[i],
                   data |-> IF target_categories[i] \in DOMAIN grouped
                            THEN grouped[target_categories[i]]
                            ELSE [c \in Range(cols_to_sum) |-> 0]]],
              LAMBDA r : r.index \in DOMAIN grouped)

\* grouped.reindex(target_categories, fill_value=0)
Reindex(grouped) ==
    [i \in DOMAIN target_categories |->
        [index |-> target_categories[i],
         data |-> IF target_categories[i] \in DOMAIN grouped
                  THEN grouped[target_categories[i]]
                  ELSE [c \in Range(cols_to_sum) |-> 0]]]

\* one row of df_final[material_cols].sum(axis=1)
RECURSIVE RowSumFrom(_, _, _)
RowSumFrom(data, k, acc) ==
    IF k > Len(material_cols) THEN acc
    ELSE RowSumFrom(data, k + 1, FAdd(acc, data[material_cols[k]]))

\* mutant of RowTotal: the row sum taken over every column, the unit count included
RowTotalAllColumns(data) == FAdd(data["TOTAL_UNITS_SOLD"], RowSumFrom(data, 1, 0))

RowTotal(data) == RowSumFrom(data, 1, 0)

\* df_final['Total_Weight_KG'] = df_final[material_cols].sum(axis=1)
DeriveTotal(final) ==
    [i \in DOMAIN final |->
        [index |-> final[i].index,
         data |-> [c \in DOMAIN final[i].data \cup {"Total_Weight_KG"} |->
                    IF c = "Total_Weight_KG" THEN RowTotal(final[i].data)
                    ELSE final[i].data[c]]]]

\* one cell of df_final.sum(): the column summed down the rows
RECURSIVE DownFrom(_, _, _, _)
DownFrom(final, col, i, acc) ==
    IF i > Len(final) THEN acc
    ELSE DownFrom(final, col, i + 1, Add(col, acc, final[i].data[col]))

GrandTotalCell(final, col) == DownFrom(final, col, 1, 0)

\* mutant of AppendTotal: the grand total's total weight recomputed from its materials
AppendTotalRecomputed(final) ==
    Append(final,
           [index |-> GrandTotalLabel,
            data |-> [c \in DOMAIN final[1].data |->
                        IF c = "Total_Weight_KG"
                        THEN RowSumFrom([m \in Range(material_cols) |->
                                            GrandTotalCell(final, m)], 1, 0)
                        ELSE GrandTotalCell(final, c)]])

\* grand_total_row = df_final.sum(); pd.concat([df_final, grand_total_row.to_frame().T])
AppendTotal(final) ==
    Append(final,
           [index |-> GrandTotalLabel,
            data |-> [c \in DOMAIN final[1].data |-> GrandTotalCell(final, c)]])

\* rename(index=row_mapping), reset_index(), insert(0, country column), rename(columns=col_mapping)
Format(final, name) ==
    [i \in DOMAIN final |->
        [c \in {CountryColumn} \cup {col_mapping[x] : x \in DOMAIN col_mapping} |->
            IF c = CountryColumn THEN <<name>>
            ELSE IF c = col_mapping["index"]
                 THEN <<IF final[i].index \in DOMAIN row_mapping
                        THEN row_mapping[final[i].index] ELSE final[i].index>>
                 ELSE <<final[i].data[CHOOSE x \in DOMAIN col_mapping : col_mapping[x] = c]>>]]

(***************************************************************************)
(* The uploaded files explored.                                            *)
(***************************************************************************)
\* country code and category label of a row
KeyProfiles ==
    {<<(<<"DE">>), (<<"Primary Packaging">>)>>,
     <<(<<"DE">>), (<<"Secondary Packaging">>)>>,
     <<(<<"DE">>), (<<"Unknown Tier">>)>>,
     <<(<<"DE">>), NaN>>,
     <<(<<"ZZ">>), (<<"Primary Packaging">>)>>,
     <<NaN, (<<"Primary Packaging">>)>>}

\* unit count and material weights of a row
ValueProfiles ==
    {[c \in Range(cols_to_sum) |->
        CASE c = "TOTAL_UNITS_SOLD" -> <<1>>
          [] c = "PAPER_KG" -> <<Pow2(MantissaBits)>>
          [] c = "PLASTIC_KG" -> <<1>>
          [] OTHER -> <<0>>],
     [c \in Range(cols_to_sum) |->
        CASE c = "TOTAL_UNITS_SOLD" -> <<2>>
          [] c = "PLASTIC_KG" -> <<1>>
          [] OTHER -> <<0>>],
     [c \in Range(cols_to_sum) |->
        CASE c = "TOTAL_UNITS_SOLD" -> NaN
          [] c = "PAPER_KG" -> NaN
          [] c = "PLASTIC_KG" -> <<2>>
          [] c = "GLASS_KG" -> NaN
          [] c = "WOOD_KG" -> <<1>>
          [] OTHER -> <<0>>]}

MkRow(k, v) ==
    [c \in AllCols |->
        IF c = "SHIP_TO_COUNTRY_CODE" THEN k[1]
        ELSE IF c = "EPR_CATEGORY" THEN k[2]
        ELSE v[c]]

RowPool == {MkRow(k, v) : k \in KeyProfiles, v \in ValueProfiles}

RowSeqs == UNION {[1..n -> RowPool] : n \in 0..MaxRows}

\* the table with the given columns holding the given rows
MkTable(cols, rows) ==
    [columns |-> cols, rows |-> [i \in DOMAIN rows |-> [c \in cols |-> rows[i][c]]]]

\* row sequences tried with every set of columns
SampleRows ==
    {<<MkRow(k, v)>> : k \in {<<(<<"DE">>), (<<"Primary Packaging">>)>>,
                               <<(<<"DE">>), (<<"Unknown Tier">>)>>},
                       v \in ValueProfiles}

Tables ==
    {MkTable(AllCols, rows) : rows \in RowSeqs}
        \cup {MkTable(cols, rows) : cols \in SUBSET AllCols, rows \in SampleRows}

\* what pd.read_csv does with the file under each candidate encoding: it parses
\* ("ok"), raises UnicodeDecodeError ("decode") or raises another exception ("other",
\* e.g. EmptyDataError for an empty file, ParserError for ragged lines).  read_csv is
\* a library call: every outcome is allowed for every candidate, latin1 included,
\* although CPython's latin1 codec decodes every byte; load_csv_safe has a branch
\* for the case that all candidates fail, and the model reaches it.
Outcomes == [DOMAIN encodings -> {"ok", "decode", "other"}]

ReaderTables ==
    {MkTable(cols, rows) :
        cols \in {AllCols, AllCols \ {"SHIP_TO_COUNTRY_CODE"}}, rows \in SampleRows}

Files ==
    {[outcome |-> [i \in DOMAIN encodings |-> "ok"], table |-> t] : t \in Tables}
        \cup {[outcome |-> o, table |-> t] : o \in Outcomes, t \in ReaderTables}

(***************************************************************************)
(* Messages shown by st.error.                                             *)
(***************************************************************************)
Err(kind, exc, column, encoding) ==
    [kind |-> kind, exc |-> exc, column |-> column, encoding |-> encoding]

DecodeFailure == Err("DecodeFailure", "", "", "")
SchemaError(enc) == Err("SchemaError", "", "SHIP_TO_COUNTRY_CODE", enc)
EmptySelectionError == Err("EmptySelectionError", "", "", "")
\* except Exception as e: st.error(...)
InternalError(exc) == Err("InternalError", exc, "", "")

(***************************************************************************)
(* The run.                                                                *)
(***************************************************************************)
Init ==
    /\ file \in Files
    /\ pc = "load"
    /\ enc_idx = 1
    /\ pos = 0
    /\ attempts = <<>>
    /\ df = <<>>
    /\ loaded_encoding = "None"
    /\ available_countries = <<>>
    /\ default_index = 0
    /\ offered = FALSE
    /\ selected_country = <<>>
    /\ df_target = <<>>
    /\ df_final = <<>>
    /\ df_display = <<>>
    /\ error = <<>>
    /\ displayed = <<>>
    /\ exported = FALSE

\* mutant of Seek0: the stream is left where the previous attempt stopped
SeekNone(p) == p

\* file.seek(0)
Seek0(p) == 0

\* an exception reaches `except Exception`: the message is shown and the run ends
Raise(exc) ==
    /\ error' = <<InternalError(exc)>>
    /\ pc' = "done"

\* load_csv_safe: one pass of the loop over the candidate encodings
Attempt ==
    /\ pc = "load"
    /\ LET start == Seek0(pos)
           res == file.outcome[enc_idx]
       IN  /\ attempts' = Append(attempts, [encoding |-> encodings[enc_idx], from |-> start])
           /\ \E p \in start..FileLen :
                CASE res = "ok" ->
                        /\ pos' = FileLen
                        /\ df' = <<file.table>>
                        /\ loaded_encoding' = encodings[enc_idx]
                        /\ pc' = "check_df"
                        /\ UNCHANGED <<enc_idx, error>>
                  [] res = "decode" ->
                        /\ pos' = p
                        /\ IF enc_idx < Len(encodings)
                           THEN /\ enc_idx' = enc_idx + 1
                                /\ UNCHANGED <<pc, df, loaded_encoding>>
                           ELSE /\ df' = <<>>
                                /\ loaded_encoding' = "None"
                                /\ pc' = "check_df"
                                /\ UNCHANGED enc_idx
                        /\ UNCHANGED error
                  [] OTHER ->
                        /\ pos' = p
                        /\ Raise("ReadError")
                        /\ UNCHANGED <<enc_idx, df, loaded_encoding>>
    /\ UNCHANGED <<file, available_countries, default_index, offered, selected_country,
                   df_target, df_final, df_display, displayed, exported>>

\* if df is None: st.error(...); st.stop()
CheckDecoded ==
    /\ pc = "check_df"
    /\ IF df = <<>>
       THEN /\ error' = <<DecodeFailure>>
            /\ pc' = "done"
       ELSE /\ pc' = "check_schema"
            /\ UNCHANGED error
    /\ UNCHANGED <<file, enc_idx, pos, attempts, df, loaded_encoding, available_countries,
                   default_index, offered, selected_country, df_target, df_final,
                   df_display, displayed, exported>>

\* mutant of LacksCountryColumn: the check looks for another column
LacksCategoryColumn(t) == ~HasColumn(t, "EPR_CATEGORY")

\* 'SHIP_TO_COUNTRY_CODE' not in df.columns
LacksCountryColumn(t) == ~HasColumn(t, "SHIP_TO_COUNTRY_CODE")

\* if 'SHIP_TO_COUNTRY_CODE' not in df.columns: st.error(...); st.stop()
CheckSchema ==
    /\ pc = "check_schema"
    /\ IF LacksCountryColumn(df[1])
       THEN /\ error' = <<SchemaError(loaded_encoding)>>
            /\ pc' = "done"
       ELSE /\ pc' = "countries"
            /\ UNCHANGED error
    /\ UNCHANGED <<file, enc_idx, pos, attempts, df, loaded_encoding, available_countries,
                   default_index, offered, selected_country, df_target, df_final,
                   df_display, displayed, exported>>

\* available_countries = ...; if not available_countries: st.error(...)
Countries ==
    /\ pc = "countries"
    /\ IF ~HasColumn(df[1], "SHIP_TO_COUNTRY_CODE")
       THEN /\ Raise("KeyError")
            /\ UNCHANGED available_countries
       ELSE /\ available_countries' = AvailableCountries(df[1])
            /\ IF available_countries' = <<>>
               THEN /\ error' = <<EmptySelectionError>>
                    /\ pc' = "done"
               ELSE /\ pc' = "select"
                    /\ UNCHANGED error
    /\ UNCHANGED <<file, enc_idx, pos, attempts, df, loaded_encoding, default_index,
                   offered, selected_country, df_target, df_final, df_display,
                   displayed, exported>>

\* default_index = ...; selected_country = st.sidebar.selectbox(...)
Select ==
    /\ pc = "select"
    /\ default_index' = DefaultIndex(available_countries)
    /\ offered' = TRUE
    /\ \E c \in Range(available_countries) : selected_country' = <<c>>
    /\ pc' = "filter"
    /\ UNCHANGED <<file, enc_idx, pos, attempts, df, loaded_encoding, available_countries,
                   df_target, df_final, df_display, error, displayed, exported>>

\* df_target = df[df['SHIP_TO_COUNTRY_CODE'] == selected_country].copy()
FilterStep ==
    /\ pc = "filter"
    /\ df_target' = <<Filter(df[1], selected_country[1])>>
    /\ pc' = "normalize"
    /\ UNCHANGED <<file, enc_idx, pos, attempts, df, loaded_encoding, available_countries,
                   default_index, offered, selected_country, df_final, df_display, error,
                   displayed, exported>>

\* for col in material_cols: ...
NormalizeStep ==
    /\ pc = "normalize"
    /\ df_target' = <<Normalize(df_target[1])>>
    /\ pc' = "aggregate"
    /\ UNCHANGED <<file, enc_idx, pos, attempts, df, loaded_encoding, available_countries,
                   default_index, offered, selected_country, df_final, df_display, error,
                   displayed, exported>>

\* grouped = df_target.groupby('EPR_CATEGORY')[cols_to_sum].sum(); df_final = grouped.reindex(...)
Aggregate ==
    /\ pc = "aggregate"
    /\ IF GroupByRaises(df_target[1])
       THEN /\ Raise("KeyError")
            /\ UNCHANGED df_final
       ELSE /\ df_final' = Reindex(GroupSum(df_target[1]))
            /\ pc' = "total_weight"
            /\ UNCHANGED error
    /\ UNCHANGED <<file, enc_idx, pos, attempts, df, loaded_encoding, available_countries,
                   default_index, offered, selected_country, df_target, df_display,
                   displayed, exported>>

\* df_final['Total_Weight_KG'] = df_final[material_cols].sum(axis=1)
TotalWeight ==
    /\ pc = "total_weight"
    /\ df_final' = DeriveTotal(df_final)
    /\ pc' = "grand_total"
    /\ UNCHANGED <<file, enc_idx, pos, attempts, df, loaded_encoding, available_countries,
                   default_index, offered, selected_country, df_target, df_display, error,
                   displayed, exported>>

\* grand_total_row = df_final.sum(); df_final = pd.concat([...])
GrandTotal ==
    /\ pc = "grand_total"
    /\ df_final' = AppendTotal(df_final)
    /\ pc' = "format"
    /\ UNCHANGED <<file, enc_idx, pos, attempts, df, loaded_encoding, available_countries,
                   default_index, offered, selected_country, df_target, df_display, error,
                   displayed, exported>>

\* rename the rows, reset the index, insert the country column, rename the columns
FormatStep ==
    /\ pc = "format"
    /\ df_display' = Format(df_final, CountryName(selected_country[1]))
    /\ pc' = "display"
    /\ UNCHANGED <<file, enc_idx, pos, attempts, df, loaded_encoding, available_countries,
                   default_index, offered, selected_country, df_target, df_final, error,
                   displayed, exported>>

\* st.success(...); st.dataframe(df_display.style.format(format_dict), ...)
Display ==
    /\ pc = "display"
    /\ displayed' = <<df_display>>
    /\ pc' = "export"
    /\ UNCHANGED <<file, enc_idx, pos, attempts, df, loaded_encoding, available_countries,
                   default_index, offered, selected_country, df_target, df_final,
                   df_display, error, exported>>

\* the workbook is written and the download button offered; the writer may raise
\* (xlsxwriter missing, a sheet name Excel rejects), which `except Exception` reports
Export ==
    /\ pc = "export"
    /\ \E raised \in BOOLEAN :
        IF raised
        THEN /\ Raise("ExportError")
             /\ UNCHANGED exported
        ELSE /\ exported' = TRUE
             /\ pc' = "done"
             /\ UNCHANGED error
    /\ UNCHANGED <<file, enc_idx, pos, attempts, df, loaded_encoding, available_countries,
                   default_index, offered, selected_country, df_target, df_final,
                   df_display, displayed>>

Next ==
    \/ Attempt
    \/ CheckDecoded
    \/ CheckSchema
    \/ Countries
    \/ Select
    \/ FilterStep
    \/ NormalizeStep
    \/ Aggregate
    \/ TotalWeight
    \/ GrandTotal
    \/ FormatStep
    \/ Display
    \/ Export

Spec == Init /\ [][Next]_vars

(***************************************************************************)
(* Vocabulary of the properties.                                           *)
(***************************************************************************)
\* the aggregator has produced its output in this run
Produced ==
    \/ pc \in {"total_weight", "grand_total", "format", "display", "export"}
    \/ pc = "done" /\ displayed # <<>>

\* the grand-total row has been appended
Totalled ==
    \/ pc \in {"format", "display", "export"}
    \/ pc = "done" /\ displayed # <<>>

\* the fill loop has run on df_target
Normalized ==
    \/ pc \in {"aggregate", "total_weight", "grand_total", "format", "display", "export"}
    \/ pc = "done" /\ df_target # <<>>

Sel == selected_country[1]

Recognized == Range(target_categories)

\* the numeric columns of the final table
NumericCols == Range(cols_to_sum) \cup {"Total_Weight_KG"}

\* the input rows of country sel labelled cat
Matching(t, sel, cat) ==
    SelectSeq(t.rows, LAMBDA r : r["SHIP_TO_COUNTRY_CODE"] = <<sel>> /\ r["EPR_CATEGORY"] = <<cat>>)

\* the value a cell counts for: 0 when the column is absent or the cell missing
Counted(t, r, col) == IF col \in t.columns /\ r[col] # NaN THEN r[col][1] ELSE 0

RECURSIVE ExpectedFrom(_, _, _, _, _)
ExpectedFrom(t, rows, col, i, acc) ==
    IF i > Len(rows) THEN acc
    ELSE ExpectedFrom(t, rows, col, i + 1, Add(col, acc, Counted(t, rows[i], col)))

\* the sum of column col over the input rows of country sel labelled cat
ExpectedSum(t, sel, cat, col) == ExpectedFrom(t, Matching(t, sel, cat), col, 1, 0)

AllZero(data) == \A c \in DOMAIN data : data[c] = 0

\* C1: once the aggregator has produced its output, the report's data rows are
\* exactly two, labelled 'Primary Packaging' and 'Secondary Packaging' in that
\* order whatever the input rows and their order (any further row is the grand
\* total), and a fixed category with no matching input row is an all-zero row.
C1_FixedStructure ==
    Produced =>
        /\ Len(df_final) >= 2
        /\ df_final[1].index = "Primary Packaging"
        /\ df_final[2].index = "Secondary Packaging"
        /\ pc \in {"total_weight", "grand_total"} => Len(df_final) = 2
        /\ \A i \in 3..Len(df_final) : i = 3 /\ df_final[i].index = GrandTotalLabel
        /\ \A i \in 1..2 :
            Matching(df[1], Sel, target_categories[i]) = <<>>
                => \A c \in Range(cols_to_sum) : df_final[i].data[c] = 0

\* C1 witness: two rows of the selected country, a Secondary row before a row
\* with an unrecognized label; the output is Primary (all zero), then Secondary.
C1_Witness ==
    /\ pc = "total_weight"
    /\ Len(df[1].rows) = 2
    /\ df[1].rows[1]["SHIP_TO_COUNTRY_CODE"] = <<Sel>>
    /\ df[1].rows[2]["SHIP_TO_COUNTRY_CODE"] = <<Sel>>
    /\ df[1].rows[1]["EPR_CATEGORY"] = <<"Secondary Packaging">>
    /\ df[1].rows[2]["EPR_CATEGORY"] = <<"Unknown Tier">>
    /\ Len(df_final) = 2
    /\ AllZero(df_final[1].data)
    /\ df_final[2].data["TOTAL_UNITS_SOLD"] > 0

\* C2: in each category row, every summed column (unit count, seven materials)
\* holds the sum, missing cells counted as 0, of that column over exactly the input
\* rows whose country is the selected one and whose label is that category.
C2_CategorySums ==
    Produced =>
        \A i \in 1..2 : \A c \in Range(cols_to_sum) :
            df_final[i].data[c] = ExpectedSum(df[1], Sel, target_categories[i], c)

\* C2 witness: two Primary rows of the selected country with units 1 and 2 and
\* plastic 1 and 1 give Primary units 3, plastic 2 and an all-zero Secondary row.
C2_Witness ==
    /\ pc = "total_weight"
    /\ Len(Matching(df[1], Sel, "Primary Packaging")) = 2
    /\ df_final[1].data["TOTAL_UNITS_SOLD"] = 3
    /\ df_final[1].data["PLASTIC_KG"] = 2
    /\ AllZero(df_final[2].data)

\* C3: the grand-total row is appended once, after the total-weight column exists,
\* and each of its numeric cells, the total weight included, is the sum of that
\* column over the two category rows (the total weight is summed, not recomputed).
C3_GrandTotal ==
    /\ Len(df_final) \in {0, 2, 3}
    /\ pc = "grand_total" =>
        /\ Len(df_final) = 2
        /\ \A i \in 1..2 : "Total_Weight_KG" \in DOMAIN df_final[i].data
    /\ Totalled =>
        /\ Len(df_final) = 3
        /\ df_final[3].index = GrandTotalLabel
        /\ DOMAIN df_final[3].data = NumericCols
        /\ \A c \in NumericCols :
            df_final[3].data[c] = Add(c, df_final[1].data[c], df_final[2].data[c])

\* C3 witness: a report whose two category rows both carry units and weight.
C3_Witness ==
    /\ pc = "done"
    /\ exported
    /\ df_final[1].data["TOTAL_UNITS_SOLD"] > 0
    /\ df_final[2].data["TOTAL_UNITS_SOLD"] > 0
    /\ df_final[3].data["TOTAL_UNITS_SOLD"]
         = df_final[1].data["TOTAL_UNITS_SOLD"] + df_final[2].data["TOTAL_UNITS_SOLD"]
    /\ df_final[3].data["Total_Weight_KG"] > df_final[1].data["Total_Weight_KG"]

\* the floating-point sum of the seven material weights of a row, left to right
MaterialSum(data) ==
    FAdd(FAdd(FAdd(FAdd(FAdd(FAdd(data["PAPER_KG"], data["PLASTIC_KG"]), data["GLASS_KG"]),
                        data["ALUMINUM_KG"]), data["STEEL_KG"]), data["WOOD_KG"]),
         data["OTHER_KG"])

\* C4 as claimed: in every row of the final table, the grand-total row included,
\* the total weight equals exactly the sum of that row's seven material weights.
C4_TotalWeightEveryRow ==
    Totalled =>
        \A i \in 1..3 : df_final[i].data["Total_Weight_KG"] = MaterialSum(df_final[i].data)

\* the exact (unrounded) sum of the material weights of a row
RECURSIVE ExactFrom(_, _)
ExactFrom(data, k) ==
    IF k > Len(material_cols) THEN 0 ELSE data[material_cols[k]] + ExactFrom(data, k + 1)

\* C4 amended: in the Primary and the Secondary row the total weight equals exactly
\* the floating-point sum of the row's seven material weights; the grand-total
\* row's total weight is the floating-point sum of the two category totals, and it
\* equals the sum of the grand-total row's seven material cells whenever no addition
\* rounds (the exact sum of all material weights is exactly representable).
C4_TotalWeightAmended ==
    /\ pc \in {"grand_total"} =>
        \A i \in 1..2 : df_final[i].data["Total_Weight_KG"] = MaterialSum(df_final[i].data)
    /\ Totalled =>
        /\ \A i \in 1..2 : df_final[i].data["Total_Weight_KG"] = MaterialSum(df_final[i].data)
        /\ df_final[3].data["Total_Weight_KG"]
             = FAdd(df_final[1].data["Total_Weight_KG"], df_final[2].data["Total_Weight_KG"])
        /\ ExactFrom(df_final[1].data, 1) + ExactFrom(df_final[2].data, 1) <= Pow2(MantissaBits)
             => df_final[3].data["Total_Weight_KG"] = MaterialSum(df_final[3].data)

\* C4 witness: a displayed report whose grand-total total weight, the rounded sum of
\* the two category totals, differs from the sum of the grand-total's material cells.
C4_Witness ==
    /\ pc = "export"
    /\ df_final[1].data["Total_Weight_KG"] > 0
    /\ df_final[2].data["Total_Weight_KG"] > 0
    /\ df_final[1].data["Total_Weight_KG"] = MaterialSum(df_final[1].data)
    /\ df_final[3].data["Total_Weight_KG"] # MaterialSum(df_final[3].data)

\* C5: once a decoded table lacks the country column the run ends with a SchemaError
\* naming the column and the encoding that parsed, and nothing later runs: no
\* country is offered, no table displayed, no export produced.
C5_SchemaGate ==
    (df # <<>> /\ ~HasColumn(df[1], "SHIP_TO_COUNTRY_CODE")) =>
        \/ pc \in {"check_df", "check_schema"}
        \/ /\ pc = "done"
           /\ error = <<SchemaError(attempts[Len(attempts)].encoding)>>
           /\ error[1].column = "SHIP_TO_COUNTRY_CODE"
           /\ error[1].encoding \in Range(encodings)
           /\ ~offered
           /\ selected_country = <<>>
           /\ available_countries = <<>>
           /\ df_target = <<>>
           /\ df_final = <<>>
           /\ displayed = <<>>
           /\ ~exported

\* C5 witness: a table with rows and other columns but no country column, parsed as
\* gbk after utf-8 failed, has been reported as a SchemaError.
C5_Witness ==
    /\ pc = "done"
    /\ df # <<>>
    /\ ~HasColumn(df[1], "SHIP_TO_COUNTRY_CODE")
    /\ HasColumn(df[1], "EPR_CATEGORY")
    /\ Len(df[1].rows) > 0
    /\ error # <<>>
    /\ error[1].kind = "SchemaError"
    /\ error[1].encoding = "gbk"

\* C6: after normalisation every one of the seven material columns exists with no
\* missing cell: 0 where the column was absent or the cell missing, the input value
\* otherwise; the rows are those of the country-filtered set, none removed, the
\* other columns untouched, and no error is raised; so a row with a missing
\* material value adds 0 to that column's sum and its other values to theirs.
C6_ZeroDefault ==
    Normalized =>
        LET raw == Filter(df[1], Sel).rows
            nt == df_target[1]
        IN  /\ nt.columns = df[1].columns \cup Range(material_cols)
            /\ Len(nt.rows) = Len(raw)
            /\ \A i \in DOMAIN raw :
                /\ \A m \in Range(material_cols) :
                    nt.rows[i][m] = <<Counted(df[1], raw[i], m)>>
                /\ \A c \in df[1].columns \ Range(material_cols) : nt.rows[i][c] = raw[i][c]
            /\ pc = "aggregate" => error = <<>>
            /\ Produced =>
                \A k \in 1..2 : \A m \in Range(material_cols) :
                    df_final[k].data[m]
                        = ExpectedFrom(nt, SelectSeq(nt.rows,
                                LAMBDA r : r["EPR_CATEGORY"] = <<target_categories[k]>>), m, 1, 0)

\* C6 witness: the input has no PAPER_KG column and its Primary row has a missing
\* glass weight; the row is kept and adds 0 paper, 0 glass and its plastic weight.
C6_Witness ==
    /\ pc = "total_weight"
    /\ ~HasColumn(df[1], "PAPER_KG")
    /\ HasColumn(df[1], "GLASS_KG")
    /\ Len(df_target[1].rows) = 1
    /\ Filter(df[1], Sel).rows[1]["GLASS_KG"] = NaN
    /\ df_final[1].data["PAPER_KG"] = 0
    /\ df_final[1].data["GLASS_KG"] = 0
    /\ df_final[1].data["PLASTIC_KG"] = 2

\* the input with every row removed that is of another country (or none) or labelled
\* with neither fixed category (or unlabelled)
Strip(t, sel) ==
    [columns |-> t.columns,
     rows |-> SelectSeq(t.rows,
                LAMBDA r : /\ r["SHIP_TO_COUNTRY_CODE"] = <<sel>>
                           /\ \E cat \in Recognized : r["EPR_CATEGORY"] = <<cat>>)]

\* the three-row report of a table for a country
Report(t, sel) == AppendTotal(DeriveTotal(Reindex(GroupSum(Normalize(Filter(t, sel))))))

\* C7: the report is the report of the input stripped of the rows that are not of
\* the selected country or carry no recognized label, so two inputs that differ only
\* in such rows give the same three rows in every column, on screen too; with no
\* row of the selected country under a recognized label all three rows are zero.
C7_OnlyMatchingRows ==
    Totalled =>
        /\ df_final = Report(Strip(df[1], Sel), Sel)
        /\ displayed # <<>>
            => displayed[1] = Format(Report(Strip(df[1], Sel), Sel), CountryName(Sel))
        /\ Strip(df[1], Sel).rows = <<>> => \A i \in 1..3 : AllZero(df_final[i].data)

\* C7 witness: the selected country's only row is labelled 'Unknown Tier' and the
\* other row is of another country; the finished report is zero in all three rows.
C7_Witness ==
    /\ pc = "done"
    /\ exported
    /\ Len(df[1].rows) = 2
    /\ \E i \in 1..2 :
        /\ df[1].rows[i]["SHIP_TO_COUNTRY_CODE"] = <<Sel>>
        /\ df[1].rows[i]["EPR_CATEGORY"] = <<"Unknown Tier">>
        /\ df[1].rows[i]["TOTAL_UNITS_SOLD"] # NaN
    /\ \E i \in 1..2 :
        /\ df[1].rows[i]["SHIP_TO_COUNTRY_CODE"] \notin {NaN, <<Sel>>}
        /\ df[1].rows[i]["EPR_CATEGORY"] = <<"Primary Packaging">>
    /\ \A i \in 1..3 : AllZero(df_final[i].data)

\* the candidates that parse the file
Parsing == {i \in DOMAIN encodings : file.outcome[i] = "ok"}

\* the candidates that do not fail with a decode error
NotDecodeError == {i \in DOMAIN encodings : file.outcome[i] # "decode"}

Min(S) == CHOOSE i \in S : \A j \in S : i <= j

\* the attempts made are the first candidates in the fixed order, one each, each
\* read from the start of the stream
InOrderFromStart ==
    /\ Len(attempts) <= Len(encodings)
    /\ \A i \in DOMAIN attempts :
        /\ attempts[i].encoding = encodings[i]
        /\ attempts[i].from = 0

C9_AllOrNothing ==
    pc = "done" =>
        \/ /\ displayed # <<>>
           /\ Len(displayed[1]) = 3
           /\ error = <<>>
        \/ /\ displayed = <<>>
           /\ error # <<>>
           /\ error[1].kind \in {"DecodeFailure", "SchemaError", "EmptySelectionError",
                                 "InternalError"}

\* C10: an input that has the country column (with a usable value) but lacks the
\* category column or the units column still yields the three-row report and no
\* error from the pipeline's own stages.
C10_OptionalColumns ==
    (/\ pc = "done"
     /\ df # <<>>
     /\ HasColumn(df[1], "SHIP_TO_COUNTRY_CODE")
     /\ ~HasColumn(df[1], "EPR_CATEGORY") \/ ~HasColumn(df[1], "TOTAL_UNITS_SOLD")
     /\ available_countries # <<>>)
        => /\ displayed # <<>>
           /\ Len(displayed[1]) = 3
           /\ (error = <<>> \/ error[1].exc = "ExportError")

====
